---- MODULE Spec2Model ----
(***************************************************************************)
(* Spark Gateway (src/spark-gateway/main.py): GPU telemetry, per-service   *)
(* status, the fleet snapshot and the availability decision.               *)
(*                                                                         *)
(* The external collaborators (nvidia-smi, docker inspect, the HTTP health *)
(* endpoint) are inputs: each call draws one outcome from a small set.     *)
(* An Optional[X] field is a sequence of length at most one: <<>> is None. *)
(* Times are in tenths of a millisecond, so round(elapsed, 1) is a whole   *)
(* number of tenths.                                                       *)
(***************************************************************************)
EXTENDS Integers, Sequences, FiniteSets, TLC

VARIABLES
    handler,    \* the endpoint serving the current request, "none" before the first
    pc,         \* its position: "idle", a handler step, "done" or "raised"
    args,       \* the request's arguments: [service_type, mode, name]
    gpu,        \* check_availability: the GPUStatus of line 308, None if it raised
    matching,   \* check_availability: names of `matching` in dict order
    scan,       \* check_availability: number of candidates checked so far
    checked,    \* check_availability: the ServiceStatus of each candidate checked
    task,       \* list_services: per registry name, the state of its coroutine
    probes,     \* the collaborator calls of this request, in order: <<name, event>>
    observed,   \* what the collaborators answered in this request
    response,   \* what the handler returned (or the error it raised)
    world,      \* per service, what its probes answer while the world stands still
    fleet_view  \* the last snapshot list_services returned while it stood still

vars == <<handler, pc, args, gpu, matching, scan, checked, task, probes, observed,
          response, world, fleet_view>>

\* The variables outside the server: no handler reads or writes them.
outside == <<world, fleet_view>>

\* ------------------------------------------------------------------ bounds

\* Largest measured health-probe latency drawn, in tenths of a millisecond.
MaxElapsed == 1

\* ------------------------------------------------------------- Optional[X]

None == <<>>

Some(x) == <<x>>

IsSome(o) == Len(o) = 1

\* --------------------------------------------------------------- registry

\* The keys of SERVICES in insertion order (dict iteration order).
ServiceNames == <<"nemotron", "comfyui", "claude-runner", "gemini-runner">>

Registered == {ServiceNames[i] : i \in 1..Len(ServiceNames)}

SERVICES ==
    [n \in Registered |->
        CASE n = "nemotron" ->
                [container |-> "vllm-nemotron", port |-> 8000, health |-> "/health",
                 type |-> "llm", description |-> "Nemotron via vLLM", vram_gb |-> 16]
          [] n = "comfyui" ->
                [container |-> "comfyui-optimized", port |-> 8188, health |-> "/",
                 type |-> "image-generation",
                 description |-> "ComfyUI image generation", vram_gb |-> 8]
          [] n = "claude-runner" ->
                [container |-> "claude-runner", port |-> 8789, health |-> "/health",
                 type |-> "code-runner",
                 description |-> "Claude Code agent runner", vram_gb |-> 0]
          [] n = "gemini-runner" ->
                [container |-> "gemini-runner", port |-> 8790, health |-> "/health",
                 type |-> "code-runner",
                 description |-> "Gemini agent runner", vram_gb |-> 0]]

\* Requested capability types: the registered ones, one documented but not
\* registered ("image-processing") and one unknown ("audio").
ServiceTypes == {"llm", "image-generation", "code-runner", "image-processing", "audio"}

\* Mode strings: the two documented ones and an unrecognized one.
Modes == {"waterfall", "queue", "bogus-mode"}

\* ------------------------------------------------------------- GPU status

\* The sentinel strings safe_int and safe_float map to the default.
Sentinels == {"[N/A]", "N/A", "Not Supported", ""}

\* int(val) for the field strings that occur; every other string raises ValueError.
IntLiterals == {"7", "45", "48", "52", "100", "1234", "4096", "8000", "16000"}

IntOf(val) ==
    CASE val = "7" -> 7 [] val = "45" -> 45 [] val = "48" -> 48 [] val = "52" -> 52
      [] val = "100" -> 100 [] val = "1234" -> 1234 [] val = "4096" -> 4096
      [] val = "8000" -> 8000 [] val = "16000" -> 16000

\* float(val), in hundredths, for the field strings that occur.
FloatLiterals == IntLiterals \cup {"35.50"}

FloatOf(val) == IF val = "35.50" THEN 3550 ELSE 100 * IntOf(val)

safe_int(val, default) ==
    IF val \in Sentinels THEN default
    ELSE IF val \in IntLiterals THEN IntOf(val) ELSE default

safe_float(val, default) ==
    IF val \in Sentinels THEN default
    ELSE IF val \in FloatLiterals THEN FloatOf(val) ELSE default

\* round(mem_used / mem_total * 100, 1) in tenths of a percent, 0 if total is 0.
memory_utilization_pct(mem_used, mem_total) ==
    IF mem_total > 0 THEN (2000 * mem_used + mem_total) \div (2 * mem_total) ELSE 0

\* Outcomes of the nvidia-smi --query-gpu call: it raises (not installed, timeout),
\* or returns stdout, given here as the stripped comma-separated fields: all seven
\* fields numeric; memory not reported (a unified-memory GPU), idle and busy;
\* non-numeric and empty fields; the last field absent; no output at all.
SmiOutcomes ==
    {[raised |-> TRUE, parts |-> <<>>]} \cup
    {[raised |-> FALSE, parts |-> p] : p \in
        {<<"NVIDIA GB10", "45", "8000", "16000", "8000", "52", "35.50">>,
         <<"NVIDIA GB10", "7", "[N/A]", "[N/A]", "[N/A]", "48", "Not Supported">>,
         <<"NVIDIA GB10", "100", "[N/A]", "[N/A]", "[N/A]", "52", "35.50">>,
         <<"NVIDIA GB10", "n/a", "4096", "", "4096", "hot", "35.5 W">>,
         <<"NVIDIA GB10", "45", "8000", "16000", "8000", "52">>,
         <<"">>}}

\* Outcomes of the nvidia-smi --query-compute-apps call: it raises, or returns
\* lines, each given as its stripped comma-separated fields.
ProcOutcomes ==
    {[raised |-> TRUE, lines |-> <<>>]} \cup
    {[raised |-> FALSE, lines |-> l] : l \in
        {<<>>, << <<"1234", "[N/A]", "python">>, <<"No running processes found">> >>}}

RECURSIVE parse_processes(_)
parse_processes(lines) ==
    IF lines = <<>> THEN <<>>
    ELSE LET proc_parts == Head(lines) IN
         (IF Len(proc_parts) >= 3
          THEN <<[pid |-> safe_int(proc_parts[1], 0),
                  gpu_memory_mb |-> safe_int(proc_parts[2], 0),
                  process_name |-> proc_parts[3]]>>
          ELSE <<>>) \o parse_processes(Tail(lines))

\* get_gpu_status: [raised, value]; raised stands for the HTTPException(500) of
\* line 160, which every Exception inside the try block is turned into.
get_gpu_status(smi, proc) ==
    IF smi.raised \/ proc.raised \/ Len(smi.parts) < 7
    THEN [raised |-> TRUE, value |-> None]
    ELSE LET parts == smi.parts
             mem_used == safe_int(parts[3], 0)
             mem_total == safe_int(parts[4], 0)
         IN [raised |-> FALSE,
             value |-> Some([gpu_name |-> parts[1],
                             gpu_utilization_pct |-> safe_int(parts[2], 0),
                             memory_used_mb |-> mem_used,
                             memory_total_mb |-> mem_total,
                             memory_free_mb |-> safe_int(parts[5], 0),
                             memory_utilization_pct |->
                                 memory_utilization_pct(mem_used, mem_total),
                             temperature_c |-> safe_int(parts[6], 0),
                             power_draw_w |-> safe_float(parts[7], 0),
                             processes |-> parse_processes(proc.lines)])]

\* --------------------------------------------------------- service status

\* Outcomes of the docker inspect call: it raises (docker missing, timeout after
\* 3 s), or returns stdout ("" when the container does not exist).
DockerOutcomes ==
    {[raised |-> TRUE, stdout |-> ""]} \cup
    {[raised |-> FALSE, stdout |-> s] : s \in {"true\n", "True\n", "false\n", ""}}

\* result.stdout.strip().lower() on the outputs above.
strip_lower(s) ==
    CASE s = "true\n" -> "true" [] s = "True\n" -> "true" [] s = "false\n" -> "false"
      [] OTHER -> s

\* Mutant: anything but "false" counts as running, a failed probe too.
_is_container_running_not_false(container_name, docker) ==
    docker.raised \/ strip_lower(docker.stdout) # "false"

_is_container_running(container_name, docker) ==
    IF docker.raised THEN FALSE ELSE strip_lower(docker.stdout) = "true"

\* HTTP status codes the health endpoint answers with.
StatusCodes == {200, 399, 400, 503}

\* Outcomes of client.get on the health endpoint: a response with its status code
\* after `elapsed` tenths of a millisecond, or an exception (a timeout, whose
\* str() is empty, or a connection failure) with its message.
HttpOutcomes ==
    {[raised |-> FALSE, status_code |-> c, elapsed |-> e, message |-> ""] :
        c \in StatusCodes, e \in 0..MaxElapsed} \cup
    {[raised |-> TRUE, status_code |-> 0, elapsed |-> 0, message |-> m] :
        m \in {"", "All connection attempts failed"}}

\* Mutant: a not-running service is reported with an error text.
NotRunningStatus_with_error(name, svc) ==
    [name |-> name, type |-> svc.type, container_running |-> FALSE,
     healthy |-> FALSE, port |-> svc.port, vram_gb |-> svc.vram_gb,
     description |-> svc.description, response_time_ms |-> None,
     error |-> Some("container not running")]

\* Lines 221-229: the status of a service whose container is not running.
NotRunningStatus(name, svc) ==
    [name |-> name, type |-> svc.type, container_running |-> FALSE,
     healthy |-> FALSE, port |-> svc.port, vram_gb |-> svc.vram_gb,
     description |-> svc.description, response_time_ms |-> None, error |-> None]

\* Mutant: an error status of the health endpoint is reported in `error`.
HealthStatus_error_on_status(name, svc, http) ==
    IF ~http.raised
    THEN [name |-> name, type |-> svc.type, container_running |-> TRUE,
          healthy |-> (http.status_code < 400), port |-> svc.port,
          vram_gb |-> svc.vram_gb, description |-> svc.description,
          response_time_ms |-> Some(http.elapsed),
          error |-> IF http.status_code < 400 THEN None ELSE Some("HTTP error")]
    ELSE [name |-> name, type |-> svc.type, container_running |-> TRUE,
          healthy |-> FALSE, port |-> svc.port, vram_gb |-> svc.vram_gb,
          description |-> svc.description, response_time_ms |-> None,
          error |-> Some(http.message)]

\* Lines 233-256: the status of a running service from its health probe.
HealthStatus(name, svc, http) ==
    IF ~http.raised
    THEN [name |-> name, type |-> svc.type, container_running |-> TRUE,
          healthy |-> (http.status_code < 400), port |-> svc.port,
          vram_gb |-> svc.vram_gb, description |-> svc.description,
          response_time_ms |-> Some(http.elapsed), error |-> None]
    ELSE [name |-> name, type |-> svc.type, container_running |-> TRUE,
          healthy |-> FALSE, port |-> svc.port, vram_gb |-> svc.vram_gb,
          description |-> svc.description, response_time_ms |-> None,
          error |-> Some(http.message)]

\* The runtime probe as the request log records it: what docker inspect did.
runtime_event(docker) ==
    IF docker.raised THEN "runtime:failed"
    ELSE IF strip_lower(docker.stdout) = "true" THEN "runtime:running"
    ELSE "runtime:not_running"

\* The health probe as the request records it: whether client.get raised (and the
\* exception's text), or else whether the status code answered is an error status
\* and how long the answer took.
http_event(http) ==
    [raised |-> http.raised,
     error_status |-> ~http.raised /\ http.status_code >= 400,
     elapsed |-> http.elapsed,
     message |-> http.message]

\* What a coroutine ends with: a returned value, or an Exception with its str();
\* `calls` lists the collaborator calls it made, in order.
Return(v, calls) == [raised |-> FALSE, exc |-> "", value |-> Some(v), calls |-> calls]

Raise(msg, calls) == [raised |-> TRUE, exc |-> msg, value |-> None, calls |-> calls]

\* An Exception that escapes _check_service: one raised outside its try blocks
\* (while the returned ServiceStatus is built), which list_services provides for
\* at lines 186-199. `fault` says whether this call is hit by one.
Faults == BOOLEAN

FaultMessage == "1 validation error for ServiceStatus"

\* Lines 220-229 of _check_service: what it ends with when not running.
check_not_running(name, svc, fault, calls) ==
    IF fault THEN Raise(FaultMessage, calls)
    ELSE Return(NotRunningStatus(name, svc), calls)

\* Lines 231-256 of _check_service: what it ends with after the health probe.
check_health(name, svc, http, fault, calls) ==
    IF fault THEN Raise(FaultMessage, calls)
    ELSE Return(HealthStatus(name, svc, http), calls)

\* Mutant: no early return, the health request is sent whatever docker said.
_check_service_always_probes(name, svc, docker, http, fault) ==
    check_health(name, svc, http, fault, <<runtime_event(docker), "health">>)

\* _check_service: the runtime probe, then (only if running) the health probe.
_check_service(name, svc, docker, http, fault) ==
    LET container_running == _is_container_running(svc.container, docker) IN
    IF ~container_running
    THEN check_not_running(name, svc, fault, <<runtime_event(docker)>>)
    ELSE check_health(name, svc, http, fault, <<runtime_event(docker), "health">>)

\* The calls of one _check_service call as entries of the request log.
Logged(name, calls) == [i \in 1..Len(calls) |-> <<name, calls[i]>>]

\* -------------------------------------------------------------- responses

NoResponse == [kind |-> "none", body |-> <<>>]

\* An HTTPException, or an unhandled Exception the framework answers with 500.
ErrorResponse(status_code, detail) ==
    [kind |-> "error", body |-> [status_code |-> status_code, detail |-> detail]]

\* Where a handler ends: it returned, or an exception left it.
Terminal(resp) == IF resp.kind = "error" THEN "raised" ELSE "done"

\* Mutant: the telemetry-failure answer reports an idle GPU.
TelemetryFailedResponse_optimistic(service_type) ==
    [available |-> FALSE, service |-> service_type,
     reason |-> <<"Cannot reach GPU (nvidia-smi failed)">>,
     gpu_memory_free_mb |-> 0, gpu_utilization_pct |-> 0,
     recommendation |-> "use_cloud"]

\* Mutant: the telemetry-failure answer honours mode=queue.
TelemetryFailedResponse_queue_by_mode(service_type) ==
    [available |-> FALSE, service |-> service_type,
     reason |-> <<"Cannot reach GPU (nvidia-smi failed)">>,
     gpu_memory_free_mb |-> 0, gpu_utilization_pct |-> 100,
     recommendation |-> IF args.mode = "queue" THEN "queue" ELSE "use_cloud"]

\* Lines 310-317.
TelemetryFailedResponse(service_type) ==
    [available |-> FALSE, service |-> service_type,
     reason |-> <<"Cannot reach GPU (nvidia-smi failed)">>,
     gpu_memory_free_mb |-> 0, gpu_utilization_pct |-> 100,
     recommendation |-> "use_cloud"]

\* Mutant: no except clause, the HTTPException of get_gpu_status propagates.
OnGpuFailure_propagates(service_type) ==
    ErrorResponse(500, <<"nvidia-smi failed">>)

\* Lines 307-317: the except clause answers every failure of get_gpu_status.
OnGpuFailure(service_type) ==
    [kind |-> "decision", body |-> TelemetryFailedResponse(service_type)]

\* Mutant: no filter, every descriptor is a candidate.
Matching_unfiltered(service_type) ==
    ServiceNames

\* Mutant: the candidates are taken in reverse dict order.
Matching_reversed(service_type) ==
    LET m == SelectSeq(ServiceNames, LAMBDA n : SERVICES[n].type = service_type)
    IN [i \in 1..Len(m) |-> m[Len(m) + 1 - i]]

\* Lines 320-324: the names of the services of the requested type, in dict order.
Matching(service_type) ==
    SelectSeq(ServiceNames, LAMBDA n : SERVICES[n].type = service_type)

\* Mutant: only "waterfall" is answered use_cloud, every other mode queue.
ExhaustedResponse_not_waterfall(service_type, mode, g) ==
    [available |-> FALSE, service |-> service_type,
     reason |-> <<"No healthy service", service_type>>,
     gpu_memory_free_mb |-> g.memory_free_mb,
     gpu_utilization_pct |-> g.gpu_utilization_pct,
     recommendation |-> IF mode = "waterfall" THEN "use_cloud" ELSE "queue"]

\* Lines 353-371.
ExhaustedResponse(service_type, mode, g) ==
    IF mode = "queue"
    THEN [available |-> FALSE, service |-> service_type,
          reason |-> <<"No healthy service, but can queue", service_type>>,
          gpu_memory_free_mb |-> g.memory_free_mb,
          gpu_utilization_pct |-> g.gpu_utilization_pct,
          recommendation |-> "queue"]
    ELSE [available |-> FALSE, service |-> service_type,
          reason |-> <<"No healthy service available", service_type>>,
          gpu_memory_free_mb |-> g.memory_free_mb,
          gpu_utilization_pct |-> g.gpu_utilization_pct,
          recommendation |-> "use_cloud"]

\* Mutant: no empty-filter return, the request falls through to lines 353-371.
NoMatchResponse_by_mode(service_type, g) ==
    ExhaustedResponse(service_type, args.mode, g)

\* Mutant: the empty-filter answer carries the fixed pessimistic values.
NoMatchResponse_pessimistic(service_type, g) ==
    [available |-> FALSE, service |-> service_type,
     reason |-> <<"No registered service of type", service_type>>,
     gpu_memory_free_mb |-> 0, gpu_utilization_pct |-> 100,
     recommendation |-> "use_cloud"]

\* Lines 327-334.
NoMatchResponse(service_type, g) ==
    [available |-> FALSE, service |-> service_type,
     reason |-> <<"No registered service of type", service_type>>,
     gpu_memory_free_mb |-> g.memory_free_mb,
     gpu_utilization_pct |-> g.gpu_utilization_pct,
     recommendation |-> "use_cloud"]

\* Mutant: the first descriptor of the type is named, not the healthy one.
HealthyResponse_first_in_type(name, status, g) ==
    [available |-> TRUE, service |-> matching[1],
     reason |-> <<matching[1], "is running and healthy", status.response_time_ms>>,
     gpu_memory_free_mb |-> g.memory_free_mb,
     gpu_utilization_pct |-> g.gpu_utilization_pct,
     recommendation |-> "use_local"]

\* Mutant: the requested type is echoed also when a healthy service was found.
HealthyResponse_echo_type(name, status, g) ==
    [available |-> TRUE, service |-> args.service_type,
     reason |-> <<name, "is running and healthy", status.response_time_ms>>,
     gpu_memory_free_mb |-> g.memory_free_mb,
     gpu_utilization_pct |-> g.gpu_utilization_pct,
     recommendation |-> "use_local"]

\* Lines 341-351.
HealthyResponse(name, status, g) ==
    [available |-> TRUE, service |-> name,
     reason |-> <<name, "is running and healthy", status.response_time_ms>>,
     gpu_memory_free_mb |-> g.memory_free_mb,
     gpu_utilization_pct |-> g.gpu_utilization_pct,
     recommendation |-> "use_local"]

\* ------------------------------------------------------------------- state

NoArgs == [service_type |-> "", mode |-> "", name |-> ""]

\* A coroutine of list_services: not created, created (scheduled, not started),
\* probing (inside the blocking docker inspect call), awaiting (suspended on
\* client.get) or finished with its result.
NoTask == [state |-> "none", result |-> None]

NoTasks == [n \in Registered |-> NoTask]

\* The world is not held still: every probe may answer anything.
Changing == [n \in Registered |-> None]

\* Nothing answered yet: no telemetry query made, no health request completed.
NoObserved == [telemetry |-> None, health |-> [n \in Registered |-> None]]

\* The record after the telemetry queries answered smi and proc.
ObserveTelemetry(smi, proc) ==
    [observed EXCEPT !.telemetry = Some([smi |-> smi, proc |-> proc])]

\* The record after the health request for name answered http.
ObserveHealth(name, http) ==
    [observed EXCEPT !.health[name] = Some(http_event(http))]

\* The record after a _check_service call that ended with r.
ObserveCheck(name, r, http) ==
    IF \E i \in 1..Len(r.calls) : r.calls[i] = "health"
    THEN ObserveHealth(name, http)
    ELSE observed

Init ==
    /\ handler = "none"
    /\ pc = "idle"
    /\ args = NoArgs
    /\ gpu = None
    /\ matching = <<>>
    /\ scan = 0
    /\ checked = <<>>
    /\ task = NoTasks
    /\ probes = <<>>
    /\ observed = NoObserved
    /\ response = NoResponse
    /\ world = Changing
    /\ fleet_view = None

\* The server takes the next request once the last one was answered.
Ready == pc \in {"idle", "done", "raised"}

\* A request arrives: nothing of the last one is kept (the server is stateless).
Begin(h, a) ==
    /\ Ready
    /\ handler' = h
    /\ args' = a
    /\ gpu' = None
    /\ matching' = <<>>
    /\ scan' = 0
    /\ checked' = <<>>
    /\ probes' = <<>>
    /\ observed' = NoObserved

\* ----------------------------------------------- GET /available/{service_type}

CallCheckAvailability(service_type, mode) ==
    /\ Begin("check_availability",
             [service_type |-> service_type, mode |-> mode, name |-> ""])
    /\ pc' = "get_gpu"
    /\ task' = NoTasks
    /\ response' = NoResponse

\* Lines 306-334: the telemetry fetch, the filter and the empty-filter return.
FetchGpu(smi, proc) ==
    /\ handler = "check_availability"
    /\ pc = "get_gpu"
    /\ LET r == get_gpu_status(smi, proc)
           m == Matching(args.service_type)
       IN IF r.raised
          THEN /\ response' = OnGpuFailure(args.service_type)
               /\ pc' = Terminal(response')
               /\ UNCHANGED <<gpu, matching>>
          ELSE /\ gpu' = r.value
               /\ matching' = m
               /\ IF m = <<>>
                  THEN /\ response' = [kind |-> "decision",
                                       body |-> NoMatchResponse(args.service_type,
                                                                r.value[1])]
                       /\ pc' = "done"
                  ELSE /\ pc' = "scan"
                       /\ UNCHANGED response
    /\ observed' = ObserveTelemetry(smi, proc)
    /\ UNCHANGED <<handler, args, scan, checked, task, probes>>

\* Lines 338-371: one iteration of the scan; the last one falls through to the
\* mode-dependent return.
CheckCandidate(docker, http, fault) ==
    /\ handler = "check_availability"
    /\ pc = "scan"
    /\ LET name == matching[scan + 1]
           r == _check_service(name, SERVICES[name], docker, http, fault)
       IN /\ scan' = scan + 1
          /\ probes' = probes \o Logged(name, r.calls)
          /\ observed' = ObserveCheck(name, r, http)
          /\ IF r.raised
             THEN /\ pc' = "raised"
                  /\ response' = ErrorResponse(500, <<r.exc>>)
                  /\ UNCHANGED checked
             ELSE LET status == r.value[1] IN
                  /\ checked' = Append(checked, status)
                  /\ IF status.healthy
                     THEN /\ pc' = "done"
                          /\ response' = [kind |-> "decision",
                                          body |-> HealthyResponse(name, status, gpu[1])]
                     ELSE IF scan + 1 = Len(matching)
                     THEN /\ pc' = "done"
                          /\ response' = [kind |-> "decision",
                                          body |-> ExhaustedResponse(args.service_type,
                                                                     args.mode, gpu[1])]
                     ELSE UNCHANGED <<pc, response>>
    /\ UNCHANGED <<handler, args, gpu, matching, task>>

\* ------------------------------------------------------------ GET /services

\* Lines 182-186: one coroutine per registry entry, handed to asyncio.gather,
\* which schedules them in dict order.
CallListServices ==
    /\ Begin("list_services", NoArgs)
    /\ pc' = "gather"
    /\ response' = NoResponse
    /\ task' = [n \in Registered |-> [state |-> "created", result |-> None]]

\* The event loop is one thread: while a coroutine sits in the synchronous
\* subprocess.run of _is_container_running, nothing else runs.
LoopBlocked == \E n \in Registered : task[n].state = "probing"

\* The coroutines scheduled and not yet started, which the loop starts in order.
ReadyQueue == SelectSeq(ServiceNames, LAMBDA n : task[n].state = "created")

\* The calls coroutine n has made so far.
CallsOf(n) ==
    LET mine == SelectSeq(probes, LAMBDA e : e[1] = n)
    IN [i \in 1..Len(mine) |-> mine[i][2]]

\* Line 218: the loop starts the next scheduled coroutine, which enters the
\* blocking docker inspect call at once.
TaskBegin(n) ==
    /\ handler = "list_services"
    /\ pc = "gather"
    /\ ~LoopBlocked
    /\ ReadyQueue # <<>>
    /\ n = Head(ReadyQueue)
    /\ task' = [task EXCEPT ![n].state = "probing"]
    /\ UNCHANGED <<handler, pc, args, gpu, matching, scan, checked, probes, observed,
                   response>>

\* Lines 218-234: docker inspect returns; the coroutine either ends with the
\* not-running status or sends the health request and suspends.
TaskProbed(n, docker, fault) ==
    /\ handler = "list_services"
    /\ pc = "gather"
    /\ task[n].state = "probing"
    /\ IF _is_container_running(SERVICES[n].container, docker)
       THEN /\ task' = [task EXCEPT ![n].state = "awaiting"]
            /\ probes' = probes \o Logged(n, <<runtime_event(docker), "health">>)
       ELSE LET r == check_not_running(n, SERVICES[n], fault,
                                       <<runtime_event(docker)>>)
            IN /\ task' = [task EXCEPT ![n] = [state |-> "finished",
                                               result |-> Some(r)]]
               /\ probes' = probes \o Logged(n, r.calls)
    /\ UNCHANGED <<handler, pc, args, gpu, matching, scan, checked, observed, response>>

\* Mutant: a health request that raises cancels the requests still in flight,
\* whose coroutines end with the same failure.
TaskHealth_cancels_siblings(n, http, fault) ==
    /\ handler = "list_services"
    /\ pc = "gather"
    /\ ~LoopBlocked
    /\ ReadyQueue = <<>>
    /\ task[n].state = "awaiting"
    /\ task' = [m \in Registered |->
                   IF m = n \/ (http.raised /\ task[m].state = "awaiting")
                   THEN [state |-> "finished",
                         result |-> Some(check_health(m, SERVICES[m], http, fault,
                                                      CallsOf(m)))]
                   ELSE task[m]]
    /\ observed' = ObserveHealth(n, http)
    /\ UNCHANGED <<handler, pc, args, gpu, matching, scan, checked, probes, response>>

\* Lines 234-256: the health request of a suspended coroutine completes (or
\* fails); the loop resumes it once every scheduled coroutine was started.
TaskHealth(n, http, fault) ==
    /\ handler = "list_services"
    /\ pc = "gather"
    /\ ~LoopBlocked
    /\ ReadyQueue = <<>>
    /\ task[n].state = "awaiting"
    /\ task' = [task EXCEPT ![n] =
                   [state |-> "finished",
                    result |-> Some(check_health(n, SERVICES[n], http, fault,
                                                 CallsOf(n)))]]
    /\ observed' = ObserveHealth(n, http)
    /\ UNCHANGED <<handler, pc, args, gpu, matching, scan, checked, probes, response>>

\* Mutant: the captured failure's text is dropped.
CapturedFailureStatus_no_error(name, svc, result) ==
    [name |-> name, type |-> svc.type, container_running |-> FALSE,
     healthy |-> FALSE, port |-> svc.port, vram_gb |-> svc.vram_gb,
     description |-> svc.description, response_time_ms |-> None,
     error |-> None]

\* Lines 190-199: the status that stands for a coroutine that raised.
CapturedFailureStatus(name, svc, result) ==
    [name |-> name, type |-> svc.type, container_running |-> FALSE,
     healthy |-> FALSE, port |-> svc.port, vram_gb |-> svc.vram_gb,
     description |-> svc.description, response_time_ms |-> None,
     error |-> Some(result.exc)]

EmptyDict == [n \in {} |-> NoTask]

\* Mutant: a coroutine that raised gets no entry.
RECURSIVE collect_statuses_drop_failed(_, _)
collect_statuses_drop_failed(names, results) ==
    IF names = <<>> \/ results = <<>> THEN [n \in {} |-> NoTask]
    ELSE IF Head(results).raised
    THEN collect_statuses_drop_failed(Tail(names), Tail(results))
    ELSE (Head(names) :> Head(results).value[1])
            @@ collect_statuses_drop_failed(Tail(names), Tail(results))

\* Lines 187-201: zip(tasks.keys(), results) folded into the statuses dict.
RECURSIVE collect_statuses(_, _)
collect_statuses(names, results) ==
    IF names = <<>> \/ results = <<>> THEN EmptyDict
    ELSE LET name == Head(names)
             result == Head(results)
             status == IF result.raised
                       THEN CapturedFailureStatus(name, SERVICES[name], result)
                       ELSE result.value[1]
         IN (name :> status) @@ collect_statuses(Tail(names), Tail(results))

\* Mutant: summary.running counts the services that run without being healthy.
FleetSnapshot_running_excludes_healthy(statuses) ==
    [services |-> statuses,
     summary |->
        [total |-> Cardinality(DOMAIN statuses),
         healthy |-> Cardinality({n \in DOMAIN statuses : statuses[n].healthy}),
         running |->
            Cardinality({n \in DOMAIN statuses : /\ statuses[n].container_running
                                                 /\ ~statuses[n].healthy})]]

\* Lines 203-211 (the timestamp, a clock reading, is left out).
FleetSnapshot(statuses) ==
    [services |-> statuses,
     summary |->
        [total |-> Cardinality(DOMAIN statuses),
         healthy |-> Cardinality({n \in DOMAIN statuses : statuses[n].healthy}),
         running |->
            Cardinality({n \in DOMAIN statuses : statuses[n].container_running})]]

\* The list gather returns: one result per coroutine, in the order given.
GatherResults == [i \in 1..Len(ServiceNames) |-> task[ServiceNames[i]].result[1]]

\* Lines 186-211: gather returns once every coroutine finished.
GatherDone ==
    /\ handler = "list_services"
    /\ pc = "gather"
    /\ \A n \in Registered : task[n].state = "finished"
    /\ response' = [kind |-> "fleet",
                    body |-> FleetSnapshot(collect_statuses(ServiceNames,
                                                            GatherResults))]
    /\ pc' = "done"
    /\ UNCHANGED <<handler, args, gpu, matching, scan, checked, task, probes, observed>>

\* ----------------------------------------------------- GET /services/{name}

\* Names asked for: the registered ones and one that is not.
RequestedNames == Registered \cup {"whisper"}

\* Lines 274-277: an unknown name is answered with 404 at once.
CallGetService(name) ==
    /\ Begin("get_service", [service_type |-> "", mode |-> "", name |-> name])
    /\ task' = NoTasks
    /\ IF name \notin Registered
       THEN /\ pc' = "raised"
            /\ response' = ErrorResponse(404, <<"Unknown service", name>>)
       ELSE /\ pc' = "check"
            /\ response' = NoResponse

\* Lines 279-281.
GetServiceCheck(docker, http, fault) ==
    /\ handler = "get_service"
    /\ pc = "check"
    /\ LET r == _check_service(args.name, SERVICES[args.name], docker, http, fault) IN
       /\ probes' = probes \o Logged(args.name, r.calls)
       /\ observed' = ObserveCheck(args.name, r, http)
       /\ IF r.raised
          THEN /\ pc' = "raised"
               /\ response' = ErrorResponse(500, <<r.exc>>)
          ELSE /\ pc' = "done"
               /\ response' = [kind |-> "status", body |-> r.value[1]]
    /\ UNCHANGED <<handler, args, gpu, matching, scan, checked, task>>

\* ------------------------------------------------------------------ GET /gpu

CallGetGpu ==
    /\ Begin("get_gpu_status", NoArgs)
    /\ task' = NoTasks
    /\ pc' = "query"
    /\ response' = NoResponse

\* Lines 86-160.
GetGpu(smi, proc) ==
    /\ handler = "get_gpu_status"
    /\ pc = "query"
    /\ LET r == get_gpu_status(smi, proc) IN
       IF r.raised
       THEN /\ pc' = "raised"
            /\ response' = ErrorResponse(500, <<"nvidia-smi failed">>)
       ELSE /\ pc' = "done"
            /\ response' = [kind |-> "gpu", body |-> r.value[1]]
    /\ observed' = ObserveTelemetry(smi, proc)
    /\ UNCHANGED <<handler, args, gpu, matching, scan, checked, task, probes>>

\* -------------------------------------------------------------- behaviours

Next ==
    \/ \E t \in ServiceTypes, m \in Modes :
          CallCheckAvailability(t, m) /\ UNCHANGED outside
    \/ \E smi \in SmiOutcomes, proc \in ProcOutcomes :
          FetchGpu(smi, proc) /\ UNCHANGED outside
    \/ \E docker \in DockerOutcomes, http \in HttpOutcomes, fault \in Faults :
          CheckCandidate(docker, http, fault) /\ UNCHANGED outside
    \/ CallListServices /\ UNCHANGED outside
    \/ \E n \in Registered : TaskBegin(n) /\ UNCHANGED outside
    \/ \E n \in Registered, docker \in DockerOutcomes, fault \in Faults :
          TaskProbed(n, docker, fault) /\ UNCHANGED outside
    \/ \E n \in Registered, http \in HttpOutcomes, fault \in Faults :
          TaskHealth(n, http, fault) /\ UNCHANGED outside
    \/ GatherDone /\ UNCHANGED outside
    \/ \E name \in RequestedNames : CallGetService(name) /\ UNCHANGED outside
    \/ \E docker \in DockerOutcomes, http \in HttpOutcomes, fault \in Faults :
          GetServiceCheck(docker, http, fault) /\ UNCHANGED outside
    \/ CallGetGpu /\ UNCHANGED outside
    \/ \E smi \in SmiOutcomes, proc \in ProcOutcomes :
          GetGpu(smi, proc) /\ UNCHANGED outside

Spec == Init /\ [][Next]_vars

\* The handlers resume: every awaited call is bounded by a timeout (5 s for
\* nvidia-smi, 3 s for docker inspect and for the health request), so a handler
\* that can take its next step eventually takes it.
Fairness ==
    /\ WF_vars(\E smi \in SmiOutcomes, proc \in ProcOutcomes :
                  FetchGpu(smi, proc) /\ UNCHANGED outside)
    /\ WF_vars(\E docker \in DockerOutcomes, http \in HttpOutcomes, fault \in Faults :
                  CheckCandidate(docker, http, fault) /\ UNCHANGED outside)

FairSpec == Spec /\ Fairness

\* ------------------------------------------ the handlers over a world at rest

\* What the probes of one service answer while nothing changes: docker inspect
\* fails, says false, or says true, and then the health endpoint answers 200,
\* answers 503 or times out. No exception escapes _check_service.
StillOutcomes ==
    {[docker |-> d,
      http |-> [raised |-> TRUE, status_code |-> 0, elapsed |-> 0, message |-> ""]] :
        d \in {[raised |-> TRUE, stdout |-> ""], [raised |-> FALSE, stdout |-> "false\n"]}}
    \cup
    {[docker |-> [raised |-> FALSE, stdout |-> "true\n"], http |-> h] :
        h \in {[raised |-> FALSE, status_code |-> 200, elapsed |-> 0, message |-> ""],
               [raised |-> FALSE, status_code |-> 503, elapsed |-> 0, message |-> ""],
               [raised |-> TRUE, status_code |-> 0, elapsed |-> 0, message |-> ""]}}

\* The telemetry queries while nothing changes: both succeed.
StillSmi ==
    [raised |-> FALSE,
     parts |-> <<"NVIDIA GB10", "45", "8000", "16000", "8000", "52", "35.50">>]

StillProc == [raised |-> FALSE, lines |-> <<>>]

\* The server before its first request, in a world that answers the same way to
\* every probe of the same service.
StillInit ==
    /\ handler = "none"
    /\ pc = "idle"
    /\ args = NoArgs
    /\ gpu = None
    /\ matching = <<>>
    /\ scan = 0
    /\ checked = <<>>
    /\ task = NoTasks
    /\ probes = <<>>
    /\ observed = NoObserved
    /\ response = NoResponse
    /\ world \in [Registered -> StillOutcomes]
    /\ fleet_view = None

\* GET /services, asked first.
StillCallListServices ==
    /\ fleet_view = None
    /\ CallListServices
    /\ UNCHANGED outside

StillTaskBegin(n) == TaskBegin(n) /\ UNCHANGED outside

StillTaskProbed(n) == TaskProbed(n, world[n].docker, FALSE) /\ UNCHANGED outside

StillTaskHealth(n) == TaskHealth(n, world[n].http, FALSE) /\ UNCHANGED outside

\* list_services returns: its snapshot is the fleet view.
StillGatherDone ==
    /\ GatherDone
    /\ fleet_view' = Some(response'.body)
    /\ UNCHANGED world

\* GET /available/{service_type}, asked once the fleet view is known.
StillCallCheckAvailability(service_type, mode) ==
    /\ fleet_view # None
    /\ CallCheckAvailability(service_type, mode)
    /\ UNCHANGED outside

StillFetchGpu == FetchGpu(StillSmi, StillProc) /\ UNCHANGED outside

StillCheckCandidate ==
    /\ handler = "check_availability"
    /\ pc = "scan"
    /\ CheckCandidate(world[matching[scan + 1]].docker,
                      world[matching[scan + 1]].http, FALSE)
    /\ UNCHANGED outside

StillNext ==
    \/ StillCallListServices
    \/ \E n \in Registered : StillTaskBegin(n)
    \/ \E n \in Registered : StillTaskProbed(n)
    \/ \E n \in Registered : StillTaskHealth(n)
    \/ StillGatherDone
    \/ \E t \in ServiceTypes, m \in Modes : StillCallCheckAvailability(t, m)
    \/ StillFetchGpu
    \/ StillCheckCandidate

StillSpec == StillInit /\ [][StillNext]_vars

\* ------------------------------------------------------------------ claims

\* check_availability has answered: it returned or an exception left it.
Answered == handler = "check_availability" /\ pc \in {"done", "raised"}

\* check_availability returned (no exception left it).
Returned == handler = "check_availability" /\ pc = "done"

\* check_availability returned a decision.
Decided == Returned /\ response.kind = "decision"

\* The registry holds a descriptor of type t.
TypeRegistered(t) == \E n \in Registered : SERVICES[n].type = t

\* The scan of this request checked n and found it healthy / unhealthy.
CheckedHealthy(n) ==
    \E j \in 1..Len(checked) : checked[j].name = n /\ checked[j].healthy

CheckedUnhealthy(n) ==
    \E j \in 1..Len(checked) : checked[j].name = n /\ ~checked[j].healthy

\* The runtime probe of n in this request reported not-running, or failed.
ProbedNotRunning(n) ==
    \E i \in 1..Len(probes) :
        probes[i] \in {<<n, "runtime:not_running">>, <<n, "runtime:failed">>}

\* The ServiceStatus values _check_service returned in this request: to the
\* decision scan, to the coroutines of the fleet check, to get_service.
CheckReturned ==
    {checked[i] : i \in 1..Len(checked)}
    \cup {task[n].result[1].value[1] :
            n \in {m \in Registered : /\ task[m].state = "finished"
                                      /\ ~task[m].result[1].raised}}
    \cup (IF response.kind = "status" THEN {response.body} ELSE {})

\* The entries of the fleet snapshot returned.
FleetEntries ==
    IF response.kind = "fleet"
    THEN {response.body.services[n] : n \in DOMAIN response.body.services}
    ELSE {}

\* C1: whenever check_availability has answered a request whose telemetry fetch
\* failed, the answer is the fail-safe decision: available=false, service = the
\* requested type, gpu_memory_free_mb=0, gpu_utilization_pct=100, use_cloud,
\* whatever the type, the mode and the registry.
C1_TelemetryFailureFailsSafe ==
    (Answered /\ gpu = None) =>
        /\ response.kind = "decision"
        /\ response.body.available = FALSE
        /\ response.body.service = args.service_type
        /\ response.body.gpu_memory_free_mb = 0
        /\ response.body.gpu_utilization_pct = 100
        /\ response.body.recommendation = "use_cloud"

C1_Witness ==
    /\ Decided
    /\ gpu = None
    /\ args.service_type = "code-runner"
    /\ args.mode = "queue"

\* C2: when telemetry succeeded and the scan found a descriptor of the requested
\* type healthy, the decision is available=true, use_local, and service names a
\* descriptor of that type that was found healthy, every earlier descriptor of
\* that type in registry order having been checked and found unhealthy.
C2_FirstHealthyWins ==
    (Returned /\ gpu # None /\ \E j \in 1..Len(checked) : checked[j].healthy) =>
        /\ response.kind = "decision"
        /\ response.body.available = TRUE
        /\ response.body.recommendation = "use_local"
        /\ \E i \in 1..Len(ServiceNames) :
              /\ response.body.service = ServiceNames[i]
              /\ SERVICES[ServiceNames[i]].type = args.service_type
              /\ CheckedHealthy(ServiceNames[i])
              /\ \A k \in 1..(i - 1) :
                    SERVICES[ServiceNames[k]].type = args.service_type =>
                        /\ CheckedUnhealthy(ServiceNames[k])
                        /\ ~CheckedHealthy(ServiceNames[k])

C2_Witness ==
    /\ Decided
    /\ response.body.available
    /\ response.body.service = "gemini-runner"
    /\ CheckedUnhealthy("claude-runner")

\* C3: when telemetry succeeded, the requested type is registered and every
\* descriptor of that type was checked and none found healthy, the decision is
\* available=false with recommendation queue if mode is "queue", and use_cloud
\* for "waterfall" and for any other mode.
C3_ExhaustedRecommendationByMode ==
    (/\ Returned
     /\ gpu # None
     /\ TypeRegistered(args.service_type)
     /\ \A j \in 1..Len(checked) : ~checked[j].healthy) =>
        /\ response.kind = "decision"
        /\ response.body.available = FALSE
        /\ response.body.recommendation =
              (IF args.mode = "queue" THEN "queue" ELSE "use_cloud")
        /\ \A n \in Registered :
              SERVICES[n].type = args.service_type => CheckedUnhealthy(n)

C3_Witness ==
    /\ Decided
    /\ args.mode = "bogus-mode"
    /\ args.service_type = "code-runner"
    /\ Len(checked) = 2
    /\ response.body.recommendation = "use_cloud"

\* C4: for a type with no descriptor in the registry, check_availability answers
\* with a decision (never an error): available=false, use_cloud, service = the
\* requested type, whatever the mode.
C4_UnknownTypeGoesToCloud ==
    (Answered /\ ~TypeRegistered(args.service_type)) =>
        /\ response.kind = "decision"
        /\ response.body.available = FALSE
        /\ response.body.recommendation = "use_cloud"
        /\ response.body.service = args.service_type

C4_Witness ==
    /\ Decided
    /\ gpu # None
    /\ args.service_type = "audio"
    /\ args.mode = "queue"

\* An AvailabilityResponse with every field of its declared type.
WellFormedDecision(d) ==
    /\ DOMAIN d = {"available", "service", "reason", "gpu_memory_free_mb",
                   "gpu_utilization_pct", "recommendation"}
    /\ d.available \in BOOLEAN
    /\ d.service \in ServiceTypes \cup Registered
    /\ d.gpu_memory_free_mb \in Nat
    /\ d.gpu_utilization_pct \in Nat
    /\ d.recommendation \in {"use_local", "use_cloud", "queue"}

\* C5: every check_availability request reaches a terminal state, and there it
\* has returned one well-formed decision; no outcome of the telemetry fetch, the
\* runtime probe or the health probe (failures and timeouts included) makes it
\* raise: an exception leaves it only if one escaped _check_service uncaught.
C5_DecisionAlwaysReturned ==
    /\ [](Answered =>
            \/ response.kind = "decision" /\ WellFormedDecision(response.body)
            \/ /\ pc = "raised"
               /\ response = ErrorResponse(500, <<FaultMessage>>))
    /\ [](handler = "check_availability" => scan <= Len(matching))
    /\ ((handler = "check_availability" /\ pc \in {"get_gpu", "scan"}) ~> Answered)

C5_Witness ==
    /\ Decided
    /\ gpu # None
    /\ args.service_type = "code-runner"
    /\ Len(checked) = 2
    /\ \E i \in 1..Len(probes) : probes[i] = <<"claude-runner", "runtime:failed">>
    /\ checked[2].error = Some("")

\* C6: a coroutine of the fleet check that raised does not abort the request:
\* list_services never raises, it returns once all coroutines finished, and in
\* its snapshot a service whose check raised has container_running=false,
\* healthy=false and error = the exception's text, while every other service
\* has exactly the status its check returned.
C6_FailingCheckDoesNotAbortBatch ==
    (handler = "list_services") =>
        /\ pc # "raised"
        /\ (pc = "gather" /\ \A n \in Registered : task[n].state = "finished") =>
              ENABLED GatherDone
        /\ pc = "done" =>
              /\ response.kind = "fleet"
              /\ \A n \in Registered :
                    /\ n \in DOMAIN response.body.services
                    /\ LET r == task[n].result[1]
                           s == response.body.services[n]
                       IN IF r.raised
                          THEN /\ s.name = n
                               /\ s.type = SERVICES[n].type
                               /\ s.container_running = FALSE
                               /\ s.healthy = FALSE
                               /\ s.error = Some(r.exc)
                          ELSE s = r.value[1]

C6_Witness ==
    /\ handler = "list_services"
    /\ pc = "done"
    /\ task["comfyui"].result[1].raised
    /\ response.body.services["comfyui"].error = Some(FaultMessage)
    /\ response.body.services["nemotron"].healthy
    /\ response.body.services["gemini-runner"].error = Some("")

\* C7: the services map list_services returns has exactly one entry per registry
\* name, and summary.total is the registry's size, whatever the probes did.
C7_FleetSnapshotComplete ==
    (handler = "list_services" /\ pc = "done") =>
        /\ response.kind = "fleet"
        /\ DOMAIN response.body.services = Registered
        /\ Cardinality(DOMAIN response.body.services) = Len(ServiceNames)
        /\ response.body.summary.total = Len(ServiceNames)

C7_Witness ==
    /\ handler = "list_services"
    /\ pc = "done"
    /\ response.body.summary.total = 4
    /\ task["nemotron"].result[1].raised
    /\ ProbedNotRunning("comfyui")
    /\ response.body.services["claude-runner"].healthy
    /\ IsSome(response.body.services["gemini-runner"].error)

\* C8: whenever the runtime probe of a service reported not-running or failed,
\* the ServiceStatus _check_service returned for it has container_running=false,
\* healthy=false, no error and no response time.
C8_NotRunningShortCircuit ==
    \A s \in CheckReturned :
        ProbedNotRunning(s.name) =>
            /\ s.container_running = FALSE
            /\ s.healthy = FALSE
            /\ s.error = None
            /\ s.response_time_ms = None

C8_Witness ==
    /\ handler = "get_service"
    /\ response.kind = "status"
    /\ \E i \in 1..Len(probes) : probes[i] = <<args.name, "runtime:failed">>
    /\ ~response.body.container_running

\* The short-circuit invariant of a ServiceStatus.
ShortCircuited(s) ==
    ~s.container_running =>
        /\ s.healthy = FALSE
        /\ s.response_time_ms = None
        /\ s.error = None

\* C9 as claimed: every ServiceStatus produced on any path, the fleet entries
\* built from captured failures included, is short-circuited when not running.
C9_Original_EveryStatusShortCircuited ==
    \A s \in CheckReturned \cup FleetEntries : ShortCircuited(s)

\* C9 as amended: every ServiceStatus _check_service returns (single-service
\* check, decision scan, fleet coroutines) is short-circuited when not running;
\* a fleet entry with container_running=false has healthy=false and no response
\* time, and carries an error exactly if it was built from a captured failure.
C9_StatusShortCircuitedUnlessCaptured ==
    /\ \A s \in CheckReturned : ShortCircuited(s)
    /\ response.kind = "fleet" =>
          \A n \in DOMAIN response.body.services :
              LET s == response.body.services[n] IN
              ~s.container_running =>
                  /\ s.healthy = FALSE
                  /\ s.response_time_ms = None
                  /\ IsSome(s.error) <=> task[n].result[1].raised

C9_Witness ==
    /\ response.kind = "fleet"
    /\ task["nemotron"].result[1].raised
    /\ IsSome(response.body.services["nemotron"].error)
    /\ ~response.body.services["nemotron"].container_running
    /\ ~task["comfyui"].result[1].raised
    /\ ~response.body.services["comfyui"].container_running

\* C10 as claimed: in list_services no step of one service's check waits for a
\* step of another's: a coroutine that is next to start its runtime probe can
\* start it, also while another service's runtime probe is in progress.
C10_ChecksNeverWaitOnEachOther ==
    \A a, b \in Registered :
        (/\ handler = "list_services"
         /\ pc = "gather"
         /\ a # b
         /\ task[a].state = "probing"
         /\ ReadyQueue # <<>>
         /\ b = Head(ReadyQueue)) => ENABLED TaskBegin(b)

\* The runtime probe of n in this request reported running.
ProbedRunning(n) ==
    \E i \in 1..Len(probes) : probes[i] = <<n, "runtime:running">>

\* s is the status that the outcomes of n's own probes in this request determine.
DeterminedByOwnProbes(n, s) ==
    /\ s.name = n
    /\ s.type = SERVICES[n].type
    /\ s.port = SERVICES[n].port
    /\ s.vram_gb = SERVICES[n].vram_gb
    /\ s.description = SERVICES[n].description
    /\ ProbedRunning(n) \/ ProbedNotRunning(n)
    /\ ProbedNotRunning(n) =>
          /\ ~s.container_running
          /\ ~s.healthy
          /\ s.response_time_ms = None
          /\ s.error = None
    /\ ProbedRunning(n) =>
          /\ s.container_running
          /\ IsSome(observed.health[n])
          /\ \A h \in {observed.health[n][i] : i \in 1..Len(observed.health[n])} :
                IF h.raised
                THEN /\ ~s.healthy
                     /\ s.response_time_ms = None
                     /\ s.error = Some(h.message)
                ELSE /\ s.healthy = ~h.error_status
                     /\ s.response_time_ms = Some(h.elapsed)
                     /\ s.error = None

\* C11: in a fleet check, whatever the other coroutines did and in whatever order
\* the health requests completed, the ServiceStatus a coroutine returned, and the
\* snapshot's entry for it, is the one its own runtime-probe and health-probe
\* outcomes determine: a health probe that timed out or failed to connect gives
\* its own service healthy=false with the error, and no other service an error;
\* and a step of one coroutine leaves the results of the finished ones alone.
C11_SiblingProbesIsolated ==
    /\ [](handler = "list_services" =>
            \A n \in Registered :
                (task[n].state = "finished" /\ ~task[n].result[1].raised) =>
                    /\ DeterminedByOwnProbes(n, task[n].result[1].value[1])
                    /\ pc = "done" =>
                          /\ response.kind = "fleet"
                          /\ DeterminedByOwnProbes(n, response.body.services[n]))
    /\ [][(handler = "list_services" /\ pc = "gather" /\ pc' = "gather") =>
             \A m \in Registered :
                 task[m].state = "finished" => task'[m] = task[m]]_vars

C11_Witness ==
    /\ handler = "list_services"
    /\ pc = "gather"
    /\ task["nemotron"].state = "awaiting"
    /\ task["comfyui"].state = "finished"
    /\ ~task["comfyui"].result[1].raised
    /\ task["comfyui"].result[1].value[1].healthy
    /\ task["claude-runner"].state = "finished"
    /\ ProbedNotRunning("claude-runner")
    /\ task["gemini-runner"].state = "finished"
    /\ ~task["gemini-runner"].result[1].raised
    /\ observed.health["gemini-runner"] # None
    /\ observed.health["gemini-runner"][1].raised
    /\ task["gemini-runner"].result[1].value[1].error = Some("")

\* The telemetry queries of this request, if they were made.
TelemetryQueries == {observed.telemetry[i] : i \in 1..Len(observed.telemetry)}

\* The snapshot the telemetry fetch of this request returned, if it returned one.
Fetched ==
    IF handler = "check_availability" THEN gpu
    ELSE IF response.kind = "gpu" THEN Some(response.body)
    ELSE None

\* Field i of the query output as an integer (a float, in hundredths), 0 when it
\* is absent from the output, empty, a placeholder or not a number.
IntMetricOrDefault(parts, i) ==
    IF i <= Len(parts) /\ parts[i] \in IntLiterals THEN IntOf(parts[i]) ELSE 0

FloatMetricOrDefault(parts, i) ==
    IF i <= Len(parts) /\ parts[i] \in FloatLiterals THEN FloatOf(parts[i]) ELSE 0

\* C12 as claimed: when both nvidia-smi queries ran and the first one printed
\* a record, the fetch returns a snapshot in which every metric that is absent from
\* the output, empty, a placeholder or non-numeric has its default (0, 0.0) and
\* every other metric its parsed value.
C12_PartialTelemetryDegrades ==
    \A t \in TelemetryQueries :
        (~t.smi.raised /\ ~t.proc.raised /\ t.smi.parts # <<"">>) =>
            /\ Fetched # None
            /\ \A g \in {Fetched[i] : i \in 1..Len(Fetched)} :
                  /\ g.gpu_utilization_pct = IntMetricOrDefault(t.smi.parts, 2)
                  /\ g.memory_used_mb = IntMetricOrDefault(t.smi.parts, 3)
                  /\ g.memory_total_mb = IntMetricOrDefault(t.smi.parts, 4)
                  /\ g.memory_free_mb = IntMetricOrDefault(t.smi.parts, 5)
                  /\ g.temperature_c = IntMetricOrDefault(t.smi.parts, 6)
                  /\ g.power_draw_w = FloatMetricOrDefault(t.smi.parts, 7)

\* C13: in every decision check_availability returned, if available=true then
\* service is the name of a registered descriptor of the requested type whose
\* check, the last one of the scan, returned healthy; if available=false then
\* service is the requested type string unchanged.
C13_SelectedServiceField ==
    Decided =>
        IF response.body.available
        THEN /\ response.body.service \in Registered
             /\ SERVICES[response.body.service].type = args.service_type
             /\ checked # <<>>
             /\ checked[Len(checked)].name = response.body.service
             /\ checked[Len(checked)].healthy
        ELSE response.body.service = args.service_type

C13_Witness ==
    /\ Decided
    /\ response.body.available
    /\ args.service_type = "image-generation"
    /\ response.body.service = "comfyui"
    /\ CheckedHealthy("comfyui")

\* The health requests of this request: positions of the log with a "health" entry.
HealthRequests == {i \in 1..Len(probes) : probes[i][2] = "health"}

\* C14: a health request is issued for a service only right after the runtime
\* probe of the same service returned running; for a service whose runtime probe
\* returned not-running (or failed) no health request is issued in that check,
\* and none is answered.
C14_HealthProbeGatedByRuntimeProbe ==
    /\ \A i \in HealthRequests :
          /\ i > 1
          /\ probes[i - 1] = <<probes[i][1], "runtime:running">>
    /\ \A n \in Registered :
          /\ ProbedNotRunning(n) =>
                /\ \A i \in HealthRequests : probes[i][1] # n
                /\ observed.health[n] = None
          /\ observed.health[n] # None => ProbedRunning(n)

C14_Witness ==
    /\ Decided
    /\ args.service_type = "code-runner"
    /\ probes = << <<"claude-runner", "runtime:not_running">>,
                   <<"gemini-runner", "runtime:running">>,
                   <<"gemini-runner", "health">> >>
    /\ observed.health["claude-runner"] = None
    /\ observed.health["gemini-runner"] # None

\* The answers to the health request for n in this request (one at most).
HealthAnswers(n) == {observed.health[n][i] : i \in 1..Len(observed.health[n])}

\* C15: for a running service, the status _check_service returned has error set
\* exactly if the health request raised (timeout, connection failure); if the
\* request completed with a status >= 400 it has healthy=false and no error, and
\* if it completed with a status < 400 it has healthy=true, a response time and
\* no error.
C15_ErrorOnlyWhenUnreachable ==
    \A s \in CheckReturned :
        s.container_running =>
            /\ HealthAnswers(s.name) # {}
            /\ \A h \in HealthAnswers(s.name) :
                  /\ IsSome(s.error) <=> h.raised
                  /\ h.raised => ~s.healthy /\ s.error = Some(h.message)
                  /\ (~h.raised /\ h.error_status) =>
                        ~s.healthy /\ s.error = None
                  /\ (~h.raised /\ ~h.error_status) =>
                        /\ s.healthy
                        /\ IsSome(s.response_time_ms)
                        /\ s.error = None

C15_Witness ==
    /\ handler = "get_service"
    /\ response.kind = "status"
    /\ response.body.container_running
    /\ ~response.body.healthy
    /\ response.body.error = None
    /\ \E h \in HealthAnswers(args.name) : ~h.raised /\ h.error_status

\* The names whose runtime probe this request made, in the order of the probes.
ProbedNames ==
    LET runtime == SelectSeq(probes, LAMBDA e : e[2] # "health")
    IN [i \in 1..Len(runtime) |-> runtime[i][1]]

\* The position of a registered name in the registry.
RegistryIndex(n) == CHOOSE i \in 1..Len(ServiceNames) : ServiceNames[i] = n

\* C16: within one check_availability call only descriptors of the requested type
\* are checked, in strictly increasing registry order (so each at most once, no
\* retry) and without skipping one of that type, and after the first one found
\* healthy no further descriptor is checked.
C16_ScanInRegistryOrderStopsAtFirstHealthy ==
    handler = "check_availability" =>
        /\ \A i \in 1..Len(ProbedNames) :
              /\ SERVICES[ProbedNames[i]].type = args.service_type
              /\ \A k \in 1..(RegistryIndex(ProbedNames[i]) - 1) :
                    SERVICES[ServiceNames[k]].type = args.service_type =>
                        \E j \in 1..(i - 1) : ProbedNames[j] = ServiceNames[k]
        /\ \A i, j \in 1..Len(ProbedNames) :
              i < j => RegistryIndex(ProbedNames[i]) < RegistryIndex(ProbedNames[j])
        /\ Len(checked) <= Len(ProbedNames)
        /\ \A j \in 1..Len(checked) :
              /\ checked[j].name = ProbedNames[j]
              /\ checked[j].healthy =>
                    /\ j = Len(ProbedNames)
                    /\ pc = "done"

C16_Witness ==
    /\ Decided
    /\ args.service_type = "code-runner"
    /\ response.body.service = "claude-runner"
    /\ ProbedNames = <<"claude-runner">>
    /\ \A i \in 1..Len(probes) : probes[i][1] # "gemini-runner"

\* C17 as claimed: a decision returned after a successful telemetry fetch carries
\* the snapshot's free memory and utilization, and a decision that carries 0 MB
\* free and 100 % utilization was returned on the telemetry-failure path.
C17_Original_PessimisticOnlyOnFailure ==
    Decided =>
        /\ gpu # None =>
              /\ response.body.gpu_memory_free_mb = gpu[1].memory_free_mb
              /\ response.body.gpu_utilization_pct = gpu[1].gpu_utilization_pct
        /\ (/\ response.body.gpu_memory_free_mb = 0
            /\ response.body.gpu_utilization_pct = 100) => gpu = None

\* C17 as amended: a decision returned after a successful telemetry fetch (no
\* matching type, matched, exhausted) carries the free memory and the utilization
\* of the snapshot fetched in the same request, which are the values parsed from
\* that request's query output, whatever they are; a decision returned after a
\* failed fetch carries the fixed values 0 and 100.
C17_TelemetryPassedThrough ==
    Decided =>
        /\ TelemetryQueries # {}
        /\ \A t \in TelemetryQueries :
              IF gpu # None
              THEN /\ response.body.gpu_memory_free_mb = gpu[1].memory_free_mb
                   /\ response.body.gpu_utilization_pct = gpu[1].gpu_utilization_pct
                   /\ gpu[1].memory_free_mb = IntMetricOrDefault(t.smi.parts, 5)
                   /\ gpu[1].gpu_utilization_pct = IntMetricOrDefault(t.smi.parts, 2)
              ELSE /\ response.body.gpu_memory_free_mb = 0
                   /\ response.body.gpu_utilization_pct = 100

C17_Witness ==
    /\ Decided
    /\ gpu # None
    /\ args.service_type = "audio"
    /\ response.body.gpu_memory_free_mb = 0
    /\ response.body.gpu_utilization_pct = 100
    /\ \E t \in TelemetryQueries : t.smi.parts[2] = "100"

\* C18: in every decision check_availability returned, recommendation is one of
\* use_local, use_cloud, queue; available=true exactly if it is use_local; and it
\* is queue only if mode is "queue", telemetry succeeded, the requested type has
\* a registered descriptor and every descriptor of that type was checked and
\* found not healthy.
C18_RecommendationConsistent ==
    Decided =>
        /\ response.body.recommendation \in {"use_local", "use_cloud", "queue"}
        /\ response.body.available <=> response.body.recommendation = "use_local"
        /\ response.body.recommendation = "queue" =>
              /\ args.mode = "queue"
              /\ gpu # None
              /\ TypeRegistered(args.service_type)
              /\ \A n \in Registered :
                    SERVICES[n].type = args.service_type =>
                        CheckedUnhealthy(n) /\ ~CheckedHealthy(n)

C18_Witness ==
    /\ Decided
    /\ response.body.recommendation = "queue"
    /\ args.service_type = "llm"
    /\ ~response.body.available
    /\ CheckedUnhealthy("nemotron")

\* C19: every ServiceStatus produced (by _check_service on any path, or as an
\* entry of the fleet snapshot) with healthy=true has container_running=true, and
\* in every fleet snapshot summary.healthy <= summary.running <= summary.total.
C19_HealthyImpliesRunning ==
    /\ \A s \in CheckReturned \cup FleetEntries : s.healthy => s.container_running
    /\ response.kind = "fleet" =>
          /\ response.body.summary.healthy <= response.body.summary.running
          /\ response.body.summary.running <= response.body.summary.total

C19_Witness ==
    /\ response.kind = "fleet"
    /\ response.body.summary.healthy = 2
    /\ response.body.summary.running = 3
    /\ response.body.summary.total = 4
    /\ \E s \in FleetEntries : s.container_running /\ ~s.healthy

\* The registry positions of the services of type t that the fleet view reports
\* healthy.
HealthyInFleetView(t) ==
    {i \in 1..Len(ServiceNames) :
        /\ fleet_view # None
        /\ ServiceNames[i] \in DOMAIN fleet_view[1].services
        /\ fleet_view[1].services[ServiceNames[i]].type = t
        /\ fleet_view[1].services[ServiceNames[i]].healthy}

\* C20: while every probe of a service answers the same way and telemetry
\* succeeds, a decision of check_availability(T, mode) has available=true exactly
\* if the snapshot list_services returned has a healthy service of type T, and
\* then its service is the first such entry in registry order.
C20_DecisionAgreesWithFleetView ==
    (Decided /\ gpu # None /\ fleet_view # None) =>
        /\ response.body.available <=> HealthyInFleetView(args.service_type) # {}
        /\ response.body.available =>
              \E i \in HealthyInFleetView(args.service_type) :
                  /\ response.body.service = ServiceNames[i]
                  /\ \A k \in HealthyInFleetView(args.service_type) : i <= k

C20_Witness ==
    /\ Decided
    /\ gpu # None
    /\ fleet_view # None
    /\ args.service_type = "code-runner"
    /\ HealthyInFleetView("code-runner") = {4}
    /\ fleet_view[1].services["claude-runner"].container_running
    /\ fleet_view[1].services["nemotron"].healthy
    /\ response.body.available
    /\ response.body.service = "gemini-runner"

====
